---------------------------- MODULE Spec2Model ----------------------------
(***************************************************************************)
(* The cart page of the storefront (src/frontend/src/app/cart/page.tsx):   *)
(* the two React state cells `cart` and `total`, the localStorage keys     *)
(* `cart` and `checkoutItems`, the mount effect that loads the cart, the   *)
(* handlers handleRemoveFromCart, handleQuantityChange, handleClick and    *)
(* handleCheckout, and the continuations of their awaited calls.           *)
(*                                                                         *)
(* React state is modelled as the value of the last render (what the       *)
(* handlers' closures read) plus the queue of updates dispatched since;    *)
(* Render applies the queue in dispatch order.  An updater function passed *)
(* to setCart runs, with its side effects, when the queue is processed.    *)
(* Under Spec every event (a handler run up to its first await, or the     *)
(* continuation of an await) is followed by its render before the next     *)
(* event is taken.                                                         *)
(***************************************************************************)
EXTENDS Integers, Sequences, FiniteSets, TLC

\* ------------------------------------------------------------- bounds
MaxStock == 2        \* stock ceilings are 1..MaxStock; stored quantities 0..MaxStock+1
MaxPending == 1      \* handleClick and handleCheckout invocations not returned yet
MaxBatch == 2        \* handler calls between two renders (SpecRapid)
MaxClicks == 2       \* handleClick invocations not returned yet (SpecClicks)

\* ------------------------------------------------------------- data
ProductIds == {"A", "B"}
Catalogue == <<"A", "B">>
CataloguePrice == [A |-> 2, B |-> 3]

\* A line item as it is stored.  quantity 0 stands for a falsy quantity
\* (absent or 0), which the code reads as 1; numericPrice is
\* typeof item.price === 'number' (a price that came as a text is kept as
\* price 0 with numericPrice FALSE).
Items ==
  [productId : ProductIds, numericPrice : BOOLEAN, price : {0, 2, 3},
   quantity : 0..(MaxStock + 1), stock : 1..MaxStock]

\* The stored items the model starts from.  The first product ranges over
\* every stored quantity (a falsy one and one above the stock included) with
\* a numeric price; the second over both kinds of price with a quantity
\* within its stock.
WellTyped(item) ==
  /\ item.price = IF item.numericPrice THEN CataloguePrice[item.productId] ELSE 0
  /\ item.productId = Catalogue[1] => item.numericPrice
  /\ item.productId # Catalogue[1] => 1 <= item.quantity /\ item.quantity <= item.stock

\* item.quantity || 1
Qty(item) == IF item.quantity = 0 THEN 1 ELSE item.quantity

\* typeof item.price === 'number' ? item.price : 0
Price(item) == IF item.numericPrice THEN item.price ELSE 0

RECURSIVE Reduce(_, _)
Reduce(cartItems, acc) ==
  IF cartItems = <<>> THEN acc
  ELSE Reduce(Tail(cartItems), acc + Price(Head(cartItems)) * Qty(Head(cartItems)))

\* The value calculateTotal hands to setTotal.
calculateTotal(cartItems) == Reduce(cartItems, 0)

\* ------------------------------------------------------------- storage
\* A localStorage entry: absent (getItem gives null), or a text.  A text is
\* the empty string, something JSON.parse rejects, the JSON null, a JSON
\* value that is truthy but no array, or a serialized array of items.
StorageValue(kind, items) == [kind |-> kind, items |-> items]
Absent == StorageValue("absent", <<>>)

JSONstringify(value) == StorageValue("array", value)

\* JSON.parse(localStorage.getItem(key) || "[]")
JSONparse(entry) ==
  CASE entry.kind \in {"absent", "empty"} -> [throws |-> FALSE, kind |-> "array", items |-> <<>>]
    [] entry.kind = "malformed" -> [throws |-> TRUE, kind |-> "none", items |-> <<>>]
    [] OTHER -> [throws |-> FALSE, kind |-> entry.kind, items |-> entry.items]

updateLocalStorage_DropsLast(updatedCart) ==
  JSONstringify(IF updatedCart = <<>> THEN <<>>
                ELSE SubSeq(updatedCart, 1, Len(updatedCart) - 1))

\* The text updateLocalStorage writes under the key `cart`.
updateLocalStorage(updatedCart) == JSONstringify(updatedCart)


\* ------------------------------------------------------------- React state
\* An update dispatched to the `cart` state: a value (setCart(updatedCart))
\* or the updater function of handleQuantityChange, named by its arguments.
SetTo(value) == [kind |-> "set", value |-> value, productId |-> "", delta |-> 0]
Updater(productId, delta) ==
  [kind |-> "fn", value |-> <<>>, productId |-> productId, delta |-> delta]

Max(a, b) == IF a >= b THEN a ELSE b

newItem_ClampOnly(item, productId, delta) ==
  IF item.productId = productId
  THEN [item EXCEPT !.quantity = Max(Qty(item) + delta, 1)]
  ELSE item

newItem_NoClamp(item, productId, delta) ==
  IF item.productId = productId
  THEN LET newQuantity == Qty(item) + delta
       IN IF newQuantity > item.stock
          THEN item
          ELSE [item EXCEPT !.quantity = newQuantity]
  ELSE item

\* The body of prevCart.map in handleQuantityChange.
newItem(item, productId, delta) ==
  IF item.productId = productId
  THEN LET newQuantity == Qty(item) + delta
       IN IF newQuantity > item.stock
          THEN item
          ELSE [item EXCEPT !.quantity = Max(newQuantity, 1)]
  ELSE item

\* Swal.fire({icon: 'warning', ...}) was called for an item of prevCart.
stockWarning(prevCart, productId, delta) ==
  \E i \in 1..Len(prevCart) :
    /\ prevCart[i].productId = productId
    /\ Qty(prevCart[i]) + delta > prevCart[i].stock

quantityUpdater_MovesToEnd(prevCart, productId, delta) ==
  LET others == SelectSeq(prevCart, LAMBDA item : item.productId # productId)
      target == SelectSeq(prevCart, LAMBDA item : item.productId = productId)
  IN others \o [i \in 1..Len(target) |-> newItem(target[i], productId, delta)]

\* prevCart.map(...), lines 49-69.
quantityUpdater(prevCart, productId, delta) ==
  [i \in 1..Len(prevCart) |-> newItem(prevCart[i], productId, delta)]

\* The component's mutable surroundings as one value: the rendered state,
\* the pending updates, the `cart` entry of localStorage and whether a
\* stock warning was raised.
Scope(c, t, cq, tq, ls) ==
  [cart |-> c, total |-> t, cartQ |-> cq, totalQ |-> tq, lsCart |-> ls,
   warned |-> FALSE]

setCart(r, update) == [r EXCEPT !.cartQ = Append(@, update)]
setTotal(r, value) == [r EXCEPT !.totalQ = Append(@, value)]
setItemCart(r, text) == [r EXCEPT !.lsCart = text]

\* React processes the queue of `cart` in dispatch order; an updater runs
\* here, with its calls of calculateTotal, updateLocalStorage and Swal.fire.
RECURSIVE RunCartQueue(_)
RunCartQueue(r) ==
  IF r.cartQ = <<>> THEN r
  ELSE LET u == Head(r.cartQ)
           rest == [r EXCEPT !.cartQ = Tail(@)]
       IN IF u.kind = "set"
          THEN RunCartQueue([rest EXCEPT !.cart = u.value])
          ELSE LET updatedCart == quantityUpdater(r.cart, u.productId, u.delta)
               IN RunCartQueue(
                    [rest EXCEPT
                       !.cart = updatedCart,
                       !.totalQ = Append(@, calculateTotal(updatedCart)),
                       !.lsCart = updateLocalStorage(updatedCart),
                       !.warned = @ \/ stockWarning(r.cart, u.productId, u.delta)])

\* One render: both queues are drained, the last setTotal wins.
Render(r) ==
  LET q == RunCartQueue(r)
  IN [q EXCEPT !.total = IF q.totalQ = <<>> THEN @ ELSE q.totalQ[Len(q.totalQ)],
               !.totalQ = <<>>]

RemoveFromCart_KeepsTotal(r, productId) ==
  LET updatedCart == SelectSeq(r.cart, LAMBDA product : product.productId # productId)
  IN setItemCart(setCart(r, SetTo(updatedCart)), updateLocalStorage(updatedCart))

RemoveFromCart_DropsHead(r, productId) ==
  LET updatedCart == IF r.cart = <<>> THEN <<>> ELSE Tail(r.cart)
  IN setItemCart(setTotal(setCart(r, SetTo(updatedCart)), calculateTotal(updatedCart)),
                 updateLocalStorage(updatedCart))

\* handleRemoveFromCart, lines 41-44; r.cart is the `cart` of its closure.
RemoveFromCart(r, productId) ==
  LET updatedCart == SelectSeq(r.cart, LAMBDA product : product.productId # productId)
  IN setItemCart(setTotal(setCart(r, SetTo(updatedCart)), calculateTotal(updatedCart)),
                 updateLocalStorage(updatedCart))

\* handleQuantityChange: it only dispatches the updater.
QuantityChange(r, productId, delta) == setCart(r, Updater(productId, delta))

\* handleQuantityChange when React runs the updater at once: with nothing
\* pending it computes the next state eagerly, inside the setCart call, and
\* queues the value it got.
QuantityChangeEager(r, productId, delta) ==
  LET updatedCart == quantityUpdater(r.cart, productId, delta)
  IN [setItemCart(setTotal(setCart(r, SetTo(updatedCart)), calculateTotal(updatedCart)),
                  updateLocalStorage(updatedCart))
        EXCEPT !.warned = stockWarning(r.cart, productId, delta)]

OrderSucceeded(r) ==
  setItemCart(setTotal(setCart(r, SetTo(<<>>)), 0), updateLocalStorage(<<>>))

OrderFailed_Clears(r) == OrderSucceeded(r)

\* The catch branch of handleClick touches neither state nor storage.
OrderFailed(r) == r


\* ------------------------------------------------------------- handleClick
Users == {"none", "nosub", "ok"}     \* useUser(): no user, a user without sub, a user

userPresent(u) == u # "none"         \* !user is false

hasUserId_Always(u) == TRUE

hasUserId(u) == u = "ok"             \* !userId is false

orderItemsOf_RawQuantity(cartItems) ==
  [i \in 1..Len(cartItems) |->
     [productId |-> cartItems[i].productId, quantity |-> cartItems[i].quantity]]

\* cart.map(product => ({productId, quantity: product.quantity || 1}))
orderItemsOf(cartItems) ==
  [i \in 1..Len(cartItems) |->
     [productId |-> cartItems[i].productId, quantity |-> Qty(cartItems[i])]]

\* ------------------------------------------------------------- handleCheckout
cartIsEmpty_Never(parsed) == FALSE

\* !cartItems || cartItems.length === 0
cartIsEmpty(parsed) ==
  \/ parsed.kind = "null"
  \/ parsed.kind = "array" /\ Len(parsed.items) = 0

\* The cartItems of the request body: the stock is not sent and a falsy
\* quantity is sent as 1 (name and imgUrl go with the productId).
payloadOf(cartItems) ==
  [i \in 1..Len(cartItems) |->
     [productId |-> cartItems[i].productId,
      numericPrice |-> cartItems[i].numericPrice,
      price |-> cartItems[i].price,
      quantity |-> Qty(cartItems[i])]]

checkoutItemsOnSuccess_Empty(entry, cartItems) == JSONstringify(<<>>)

\* localStorage.setItem("checkoutItems", JSON.stringify(cartItems))
checkoutItemsOnSuccess(entry, cartItems) == JSONstringify(cartItems)

checkoutItemsOnFailure_Writes(entry, cartItems) == JSONstringify(cartItems)

\* The else branch and the catch branch only log.
checkoutItemsOnFailure(entry, cartItems) == entry

\* ------------------------------------------------------------- state
VARIABLES
  page,        \* "mounting", "ready", "crashed", "left" (router.push), "redirected"
  user,        \* what useUser() gives
  cart,        \* the `cart` of the last render
  total,       \* the `total` of the last render
  cartQ,       \* updates dispatched to `cart` and not rendered yet
  totalQ,      \* values dispatched to `total` and not rendered yet
  lsCart,      \* localStorage entry `cart`
  lsCheckout,  \* localStorage entry `checkoutItems`
  orders,      \* handleClick invocations that have not returned
  checkouts,   \* handleCheckout invocations awaiting the endpoint
  nav,         \* where the browser was sent: "none", a route, or the session url
  last,        \* the event handled last and what it did
  intended     \* the cart the handlers called so far stand for, one after another

vars ==
  <<page, user, cart, total, cartQ, totalQ, lsCart, lsCheckout, orders,
    checkouts, nav, last, intended>>

Event(op, productId, delta, outcome, warned) ==
  [op |-> op, productId |-> productId, delta |-> delta, outcome |-> outcome,
   warned |-> warned]

Here == Scope(cart, total, cartQ, totalQ, lsCart)

Commit(r) ==
  /\ cart' = r.cart
  /\ total' = r.total
  /\ cartQ' = r.cartQ
  /\ totalQ' = r.totalQ
  /\ lsCart' = r.lsCart

\* What one call of a handler asks for, applied to a cart on its own:
\* the cart without the product, and the cart with the product's quantity
\* moved by delta within 1..stock.
Without(c, productId) == SelectSeq(c, LAMBDA item : item.productId # productId)

Changed(c, productId, delta) ==
  [i \in 1..Len(c) |->
     IF c[i].productId = productId /\ Qty(c[i]) + delta <= c[i].stock
     THEN [c[i] EXCEPT !.quantity = Max(Qty(c[i]) + delta, 1)]
     ELSE c[i]]

RemoveAt(s, i) == SubSeq(s, 1, i - 1) \o SubSeq(s, i + 1, Len(s))

\* The persisted carts a visit can start from: nothing, texts that are no
\* serialized array, and the serialized carts of distinct products.
StoredArrays ==
  {c \in UNION {[1..n -> Items] : n \in 0..Len(Catalogue)} :
     \A i \in 1..Len(c) : c[i].productId = Catalogue[i] /\ WellTyped(c[i])}

StoredCarts ==
  {StorageValue(k, <<>>) : k \in {"absent", "empty", "malformed", "null", "object"}}
    \cup {JSONstringify(c) : c \in StoredArrays}

Init ==
  /\ page = "mounting"
  /\ user \in Users
  /\ cart = <<>>
  /\ total = 0
  /\ cartQ = <<>>
  /\ totalQ = <<>>
  /\ lsCart \in StoredCarts
  /\ lsCheckout = Absent
  /\ orders = <<>>
  /\ checkouts = <<>>
  /\ nav = "none"
  /\ last = Event("none", "", 0, "", FALSE)
  /\ intended = <<>>

\* ------------------------------------------------------------- events
\* The mount effect, lines 18-26.  JSON.parse throws on a malformed text and
\* calculateTotal throws on a truthy value that has no reduce; nothing
\* catches either, so the page is lost.
load ==
  /\ page = "mounting"
  /\ LET storedCart == JSONparse(lsCart)
     IN IF storedCart.throws
        THEN /\ page' = "crashed"
             /\ last' = Event("load", "", 0, "threw", FALSE)
             /\ UNCHANGED <<cart, total, cartQ, totalQ, lsCart>>
        ELSE IF storedCart.kind = "null"
        THEN /\ page' = "ready"
             /\ last' = Event("load", "", 0, "skipped", FALSE)
             /\ UNCHANGED <<cart, total, cartQ, totalQ, lsCart>>
        ELSE IF storedCart.kind # "array"
        THEN /\ page' = "crashed"
             /\ last' = Event("load", "", 0, "threw", FALSE)
             /\ UNCHANGED <<cart, total, cartQ, totalQ, lsCart>>
        ELSE /\ page' = "ready"
             /\ last' = Event("load", "", 0, "loaded", FALSE)
             /\ Commit(Render(setTotal(setCart(Here, SetTo(storedCart.items)),
                                       calculateTotal(storedCart.items))))
  /\ intended' = IF JSONparse(lsCart).kind = "array" THEN JSONparse(lsCart).items ELSE <<>>
  /\ UNCHANGED <<user, lsCheckout, orders, checkouts, nav>>

handleRemoveFromCart(productId) ==
  /\ page = "ready"
  /\ LET r == Render(RemoveFromCart(Here, productId))
     IN /\ Commit(r)
        /\ last' = Event("remove", productId, 0,
                         IF \E i \in 1..Len(cart) : cart[i].productId = productId
                         THEN "removed" ELSE "absent", FALSE)
  /\ intended' = Without(intended, productId)
  /\ UNCHANGED <<page, user, lsCheckout, orders, checkouts, nav>>

handleQuantityChange(productId, delta) ==
  /\ page = "ready"
  /\ LET r == Render(QuantityChange(Here, productId, delta))
     IN /\ Commit(r)
        /\ last' = Event("quantity", productId, delta,
                         IF r.warned THEN "rejected" ELSE "committed", r.warned)
  /\ intended' = Changed(intended, productId, delta)
  /\ UNCHANGED <<page, user, lsCheckout, orders, checkouts, nav>>

\* The guards of handleClick, lines 78-93: they look at the user only.
clickOutcome_OneAtATime(u) ==
  IF ~userPresent(u) THEN "login"
  ELSE IF ~hasUserId(u) THEN "noId"
  ELSE IF \E i \in 1..Len(orders) : orders[i].pc = "submitting" THEN "busy"
  ELSE "sent"

clickOutcome(u) ==
  IF ~userPresent(u) THEN "login"
  ELSE IF ~hasUserId(u) THEN "noId"
  ELSE "sent"

\* handleClick up to its first await (lines 77-101), while fewer than `limit`
\* handlers are suspended.
click(limit) ==
  /\ page = "ready"
  /\ Len(orders) + Len(checkouts) < limit
  /\ LET outcome == clickOutcome(user)
     IN /\ last' = Event("click", "", 0, outcome, FALSE)
        /\ IF outcome = "login"
           THEN /\ nav' = "/api/auth/login"
                /\ page' = "left"
                /\ UNCHANGED orders
           ELSE IF outcome = "noId"
           THEN /\ orders' = Append(orders, [orderItems |-> <<>>, pc |-> "idDialog"])
                /\ UNCHANGED <<nav, page>>
           ELSE IF outcome = "sent"
           THEN /\ orders' = Append(orders, [orderItems |-> orderItemsOf(cart),
                                             pc |-> "submitting"])
                /\ UNCHANGED <<nav, page>>
           ELSE UNCHANGED <<orders, nav, page>>
  /\ UNCHANGED <<user, cart, total, cartQ, totalQ, lsCart, lsCheckout, checkouts,
                 intended>>

handleClick == click(MaxPending)

\* Where handleClick stands once createrOrder has answered: awaiting the
\* success dialog (line 105) or the error dialog (line 114).
orderAnswered_Retries(entry, ok) ==
  IF ok THEN [orderItems |-> <<>>, pc |-> "successDialog"] ELSE entry

orderAnswered(entry, ok) ==
  [orderItems |-> <<>>, pc |-> IF ok THEN "successDialog" ELSE "errorDialog"]

\* router.push("/home") follows the success dialog only (line 111).
navigatesHome_Always(pc) == TRUE

navigatesHome(pc) == pc = "successDialog"

\* createrOrder resolved: lines 102-105, up to the awaited success dialog.
orderResolved(i) ==
  /\ orders[i].pc = "submitting"
  /\ Commit(Render(OrderSucceeded(Here)))
  /\ orders' = [orders EXCEPT ![i] = orderAnswered(orders[i], TRUE)]
  /\ last' = Event("orderOk", "", 0, "cleared", FALSE)
  /\ intended' = <<>>
  /\ UNCHANGED <<page, user, lsCheckout, checkouts, nav>>

\* createrOrder rejected: lines 112-119, up to the awaited error dialog.
orderRejected(i) ==
  /\ orders[i].pc = "submitting"
  /\ Commit(Render(OrderFailed(Here)))
  /\ orders' = [orders EXCEPT ![i] = orderAnswered(orders[i], FALSE)]
  /\ last' = Event("orderFail", "", 0, "kept", FALSE)
  /\ UNCHANGED <<page, user, lsCheckout, checkouts, nav, intended>>

\* An awaited dialog is dismissed: after the success dialog router.push("/home"),
\* after an error dialog the handler returns.
dialogDismissed(i) ==
  /\ orders[i].pc \in {"successDialog", "errorDialog", "idDialog"}
  /\ orders' = RemoveAt(orders, i)
  /\ IF navigatesHome(orders[i].pc)
     THEN /\ nav' = "/home"
          /\ page' = "left"
          /\ last' = Event("dismiss", "", 0, "home", FALSE)
     ELSE /\ last' = Event("dismiss", "", 0, "returned", FALSE)
          /\ UNCHANGED <<nav, page>>
  /\ UNCHANGED <<user, cart, total, cartQ, totalQ, lsCart, lsCheckout, checkouts,
                 intended>>

\* handleCheckout up to the fetch (lines 124-146).
handleCheckout ==
  /\ page = "ready"
  /\ Len(orders) + Len(checkouts) < MaxPending
  /\ LET cartItems == JSONparse(lsCart)
     IN IF cartItems.throws
        THEN /\ last' = Event("checkout", "", 0, "caught", FALSE)
             /\ UNCHANGED checkouts
        ELSE IF cartIsEmpty(cartItems)
        THEN /\ last' = Event("checkout", "", 0, "empty", FALSE)
             /\ UNCHANGED checkouts
        ELSE IF cartItems.kind # "array"
        THEN /\ last' = Event("checkout", "", 0, "caught", FALSE)
             /\ UNCHANGED checkouts
        ELSE /\ checkouts' = Append(checkouts,
                               [cartItems |-> cartItems.items,
                                body |-> payloadOf(cartItems.items)])
             /\ last' = Event("checkout", "", 0, "sent", FALSE)
  /\ UNCHANGED <<page, user, cart, total, cartQ, totalQ, lsCart, lsCheckout,
                 orders, nav, intended>>

\* The `cartItems` of the i-th suspended handleCheckout: the const of line
\* 125, read from storage before the fetch.
cartItemsOf_ReadAgain(i) == JSONparse(lsCart).items

cartItemsOf(i) == checkouts[i].cartItems

\* response.ok and a parsable body: lines 150-152.
sessionCreated(i) ==
  /\ page # "redirected"
  /\ lsCheckout' = checkoutItemsOnSuccess(lsCheckout, cartItemsOf(i))
  /\ nav' = "sessionUrl"
  /\ page' = "redirected"
  /\ checkouts' = RemoveAt(checkouts, i)
  /\ last' = Event("sessionOk", "", 0, "redirected", FALSE)
  /\ UNCHANGED <<user, cart, total, cartQ, totalQ, lsCart, orders, intended>>

\* response.ok is false: line 154.
sessionRefused(i) ==
  /\ page # "redirected"
  /\ lsCheckout' = checkoutItemsOnFailure(lsCheckout, checkouts[i].cartItems)
  /\ checkouts' = RemoveAt(checkouts, i)
  /\ last' = Event("sessionFail", "", 0, "refused", FALSE)
  /\ UNCHANGED <<page, user, cart, total, cartQ, totalQ, lsCart, orders, nav,
                 intended>>

\* fetch rejected or response.json() threw: line 157.
sessionThrew(i) ==
  /\ page # "redirected"
  /\ lsCheckout' = checkoutItemsOnFailure(lsCheckout, checkouts[i].cartItems)
  /\ checkouts' = RemoveAt(checkouts, i)
  /\ last' = Event("sessionFail", "", 0, "threw", FALSE)
  /\ UNCHANGED <<page, user, cart, total, cartQ, totalQ, lsCart, orders, nav,
                 intended>>

Next ==
  \/ load
  \/ \E productId \in ProductIds : handleRemoveFromCart(productId)
  \/ \E productId \in ProductIds, delta \in {-1, 1} :
       handleQuantityChange(productId, delta)
  \/ handleClick
  \/ \E i \in 1..Len(orders) : orderResolved(i)
  \/ \E i \in 1..Len(orders) : orderRejected(i)
  \/ \E i \in 1..Len(orders) : dialogDismissed(i)
  \/ handleCheckout
  \/ \E i \in 1..Len(checkouts) : sessionCreated(i)
  \/ \E i \in 1..Len(checkouts) : sessionRefused(i)
  \/ \E i \in 1..Len(checkouts) : sessionThrew(i)

Spec == Init /\ [][Next]_vars

\* The order endpoint answers every request and every dialog is dismissed:
\* the scheduling under which an order attempt is expected to finish.
SpecLive ==
  /\ Spec
  /\ \A i \in 1..MaxPending :
       /\ WF_vars(i <= Len(orders) /\ (orderResolved(i) \/ orderRejected(i)))
       /\ WF_vars(i <= Len(orders) /\ dialogDismissed(i))

\* ---------------------------------------------------- repeated clicks
\* The cart page with its order button clicked up to MaxClicks times before
\* the first answer arrives.
submitOrder == click(MaxClicks)

NextClicks ==
  \/ load
  \/ submitOrder
  \/ \E i \in 1..Len(orders) : orderResolved(i)
  \/ \E i \in 1..Len(orders) : orderRejected(i)
  \/ \E i \in 1..Len(orders) : dialogDismissed(i)

SpecClicks == Init /\ [][NextClicks]_vars

\* ------------------------------------------------------------- rapid triggers
\* The same handlers, called one after another before React renders: each
\* call leaves its updates in the queues, and the render comes as a step of
\* its own.  handleRemoveFromCart still reads the `cart` of the last render.
removeTriggered(productId) ==
  /\ page = "ready"
  /\ Len(cartQ) < MaxBatch
  /\ Commit(RemoveFromCart(Here, productId))
  /\ last' = Event("remove", productId, 0, "queued", FALSE)
  /\ intended' = Without(intended, productId)
  /\ UNCHANGED <<page, user, lsCheckout, orders, checkouts, nav>>

quantityTriggered(productId, delta) ==
  /\ page = "ready"
  /\ Len(cartQ) < MaxBatch
  /\ Commit(QuantityChange(Here, productId, delta))
  /\ last' = Event("quantity", productId, delta, "queued", FALSE)
  /\ intended' = Changed(intended, productId, delta)
  /\ UNCHANGED <<page, user, lsCheckout, orders, checkouts, nav>>

quantityTriggeredEager(productId, delta) ==
  /\ page = "ready"
  /\ cartQ = <<>> /\ totalQ = <<>>
  /\ LET r == QuantityChangeEager(Here, productId, delta)
     IN /\ Commit(r)
        /\ last' = Event("quantity", productId, delta, "eager", r.warned)
  /\ intended' = Changed(intended, productId, delta)
  /\ UNCHANGED <<page, user, lsCheckout, orders, checkouts, nav>>

rendered ==
  /\ page = "ready"
  /\ cartQ # <<>> \/ totalQ # <<>>
  /\ LET r == Render(Here)
     IN /\ Commit(r)
        /\ last' = Event("render", "", 0, "rendered", r.warned)
  /\ UNCHANGED <<page, user, lsCheckout, orders, checkouts, nav, intended>>

NextRapid ==
  \/ load
  \/ \E productId \in ProductIds : removeTriggered(productId)
  \/ \E productId \in ProductIds, delta \in {-1, 1} :
       quantityTriggered(productId, delta)
  \/ \E productId \in ProductIds, delta \in {-1, 1} :
       quantityTriggeredEager(productId, delta)
  \/ rendered

SpecRapid == Init /\ [][NextRapid]_vars


\* ------------------------------------------------------------- claims
\* What load reads from an entry of localStorage as the cart.
PersistedItems(entry) == IF entry.kind = "array" THEN entry.items ELSE <<>>

Loaded == page \in {"ready", "left", "redirected"}

RECURSIVE LineSum(_, _)
LineSum(c, n) ==
  IF n = 0 THEN 0
  ELSE LineSum(c, n - 1)
         + (IF c[n].numericPrice THEN c[n].price ELSE 0)
           * (IF c[n].quantity = 0 THEN 1 ELSE c[n].quantity)

RECURSIVE LiteralSum(_, _)
LiteralSum(c, n) ==
  IF n = 0 THEN 0
  ELSE LiteralSum(c, n - 1)
         + (IF c[n].numericPrice THEN c[n].price ELSE 0) * c[n].quantity

\* C1: a quantity change (delta -1 or +1) on a line item leaves the item as
\* it is and raises the stock warning when current + delta exceeds the
\* item's stock, and otherwise commits max(current + delta, 1), a quantity
\* that is at least 1 and at most the stock; current is the quantity the
\* page shows for the item.
C1_QuantityWithinStock ==
  [][last'.op = "quantity" =>
       /\ Len(cart') = Len(cart)
       /\ \A i \in 1..Len(cart) :
            cart[i].productId = last'.productId =>
              LET current == IF cart[i].quantity = 0 THEN 1 ELSE cart[i].quantity
                  wanted == current + last'.delta
              IN IF wanted > cart[i].stock
                 THEN cart'[i] = cart[i] /\ last'.warned
                 ELSE /\ cart'[i].quantity = (IF wanted >= 1 THEN wanted ELSE 1)
                      /\ cart'[i].quantity >= 1
                      /\ cart'[i].quantity <= cart[i].stock]_vars

\* An increment of an item that sits at its stock ceiling was rejected.
C1_Witness ==
  /\ last.op = "quantity" /\ last.delta = 1 /\ last.warned
  /\ \E i \in 1..Len(cart) :
       /\ cart[i].productId = last.productId
       /\ cart[i].quantity = cart[i].stock

\* C2 as stated: after load and after every remove, quantity change and
\* clear, the displayed total is the sum of price * quantity over the
\* in-memory cart (0 for the empty cart).
C2_TotalIsLiteralSum == Loaded => total = LiteralSum(cart, Len(cart))

\* C2 as amended: after load and after every remove, quantity change and
\* clear, the displayed total is the sum over the in-memory cart of
\* price * quantity, where a falsy (missing or 0) quantity counts as 1 and
\* a price that is not a number counts as 0; it is 0 for the empty cart.
C2_TotalIsDisplayedSum == Loaded => total = LineSum(cart, Len(cart))

\* A removal left a cart that still has a line item and a positive total.
C2_Witness ==
  /\ last.op = "remove" /\ last.outcome = "removed"
  /\ cart # <<>> /\ total > 0

\* C3: when the order call of handleClick succeeds the in-memory cart is
\* empty, the total is 0 and the persisted cart is the empty sequence; when
\* it fails the cart, the total and the persisted cart are what they were.
C3_OrderOutcome ==
  [][/\ last'.op = "orderOk" =>
          cart' = <<>> /\ total' = 0 /\ lsCart' = JSONstringify(<<>>)
     /\ last'.op = "orderFail" =>
          cart' = cart /\ total' = total /\ lsCart' = lsCart]_vars

\* A failed order left a cart that still has its items, persisted as well.
C3_Witness ==
  /\ last.op = "orderFail"
  /\ cart # <<>> /\ total > 0 /\ PersistedItems(lsCart) = cart

\* C4: once loaded, the cart persisted under `cart` is the in-memory cart:
\* the same items in the same order with the same quantities.
C4_PersistedMirrorsCart == Loaded => PersistedItems(lsCart) = cart

\* A committed quantity change is in memory and in storage.
C4_Witness ==
  /\ last.op = "quantity" /\ last.outcome = "committed"
  /\ Len(cart) = 2 /\ lsCart = JSONstringify(cart)

\* C5: handleCheckout invoked on an empty or absent persisted cart sends no
\* request to the payment-session endpoint, does not write `checkoutItems`
\* and does not redirect.
C5_EmptyCheckoutAborts ==
  [][(/\ last'.op = "checkout"
      /\ \/ lsCart.kind \in {"absent", "empty"}
         \/ lsCart.kind = "array" /\ lsCart.items = <<>>) =>
       /\ checkouts' = checkouts
       /\ lsCheckout' = lsCheckout
       /\ nav' = nav /\ page' = page]_vars

\* handleCheckout ran on a persisted cart that is the empty sequence.
C5_Witness ==
  /\ last.op = "checkout" /\ last.outcome = "empty"
  /\ lsCart = JSONstringify(<<>>)
  /\ checkouts = <<>> /\ nav = "none"

\* C6: a failed payment-session request (a refusal, or a network or parse
\* error) changes neither the in-memory cart, the total, the persisted cart
\* nor `checkoutItems`, and redirects nowhere.
C6_FailedCheckoutKeepsState ==
  [][last'.op = "sessionFail" =>
       /\ cart' = cart /\ total' = total
       /\ lsCart' = lsCart /\ lsCheckout' = lsCheckout
       /\ nav' = nav /\ page' = page
       /\ Len(checkouts') < Len(checkouts)]_vars

\* The endpoint refused a session for a cart that is still there.
C6_Witness ==
  /\ last.op = "sessionFail" /\ last.outcome = "refused"
  /\ cart # <<>> /\ lsCheckout = Absent /\ nav = "none" /\ page = "ready"

\* C7: on a successful payment-session response `checkoutItems` holds the
\* line items whose payload the request carried, and the browser is sent to
\* the returned url; `checkoutItems` is written and the browser is sent
\* there by no other step.
C7_PersistThenRedirect ==
  [][/\ last'.op = "sessionOk" =>
          /\ \E i \in 1..Len(checkouts) :
               /\ checkouts' = RemoveAt(checkouts, i)
               /\ lsCheckout'.kind = "array"
               /\ payloadOf(lsCheckout'.items) = checkouts[i].body
          /\ nav' = "sessionUrl"
     /\ lsCheckout' # lsCheckout => last'.op = "sessionOk"
     /\ (nav' = "sessionUrl" /\ nav # "sessionUrl") => last'.op = "sessionOk"]_vars

\* The session was created: the items are persisted and the browser is away.
C7_Witness ==
  /\ last.op = "sessionOk" /\ nav = "sessionUrl"
  /\ lsCheckout.kind = "array" /\ Len(lsCheckout.items) = 2

\* C8: handleClick sends an order request only for a user that has an
\* identifier: without a user it goes to the login route, with a user that
\* has no identifier it shows the error dialog, and in both cases it sends
\* nothing and leaves the cart, the total and the persisted cart alone.
C8_GuardsBeforeOrder ==
  [][last'.op = "click" =>
       /\ cart' = cart /\ total' = total /\ lsCart' = lsCart
       /\ user = "none" => orders' = orders /\ nav' = "/api/auth/login"
       /\ user = "nosub" =>
            /\ orders' = Append(orders, [orderItems |-> <<>>, pc |-> "idDialog"])
            /\ nav' = nav
       /\ (\E i \in 1..Len(orders') : orders'[i].pc = "submitting") => user = "ok"]_vars

\* handleClick stopped at the missing identifier, the cart still in place.
C8_Witness ==
  /\ last.op = "click" /\ last.outcome = "noId"
  /\ user = "nosub" /\ cart # <<>>
  /\ \E i \in 1..Len(orders) : orders[i].pc = "idDialog"

\* C9: load never fails on the persisted `cart`: when it is absent or no
\* parsable serialized sequence, the in-memory cart is empty, the total is 0
\* and the page is up.
C9_LoadNeverFails ==
  (last.op = "load" /\ lsCart.kind # "array") =>
    page = "ready" /\ cart = <<>> /\ total = 0

\* C10: removing a productId that no line item has changes neither the
\* in-memory cart, the total nor the content of the persisted cart.
C10_RemoveAbsentIsNoOp ==
  [][(last'.op = "remove" /\ last'.outcome = "absent") =>
       /\ cart' = cart /\ total' = total
       /\ PersistedItems(lsCart') = PersistedItems(lsCart)
       /\ page' = page]_vars

\* A removal of an id that is not in a cart of one item.
C10_Witness ==
  /\ last.op = "remove" /\ last.outcome = "absent"
  /\ Len(cart) = 1 /\ cart[1].productId # last.productId

InRange(item) == 1 <= item.quantity /\ item.quantity <= item.stock

\* C11 as stated: in every state after load, whatever the persisted cart
\* was, every line item of the cart has 1 <= quantity <= stock.
C11_AlwaysInRange ==
  Loaded => \A i \in 1..Len(cart) : InRange(cart[i])

\* C11 as amended: load takes the persisted items as they are; from then on
\* no remove, quantity change or clear creates a line item outside
\* 1 <= quantity <= stock: an item of the cart outside that range is one
\* that was loaded so and has not changed since.
C11_NoNewOutOfRange ==
  [][page = "ready" =>
       \A i \in 1..Len(cart') :
         InRange(cart'[i]) \/ \E j \in 1..Len(cart) : cart[j] = cart'[i]]_vars

\* A quantity of the second item was committed while the first, loaded
\* above its stock, is still as it was loaded.
C11_Witness ==
  /\ last.op = "quantity" /\ last.outcome = "committed"
  /\ Len(cart) = 2 /\ last.productId = cart[2].productId
  /\ cart[1].quantity > cart[1].stock /\ InRange(cart[2])

Settled == page = "ready" /\ cartQ = <<>> /\ totalQ = <<>>

\* C12: no update is lost when handlers are called before the previous
\* call's state was rendered: once rendered, the in-memory cart and the
\* persisted cart both are the cart that the calls made so far stand for,
\* taken one after another.
C12_NoLostUpdate ==
  Settled => cart = intended /\ PersistedItems(lsCart) = intended

\* ---------------------------------------------------------------- C13
InDialog(pc) == pc \in {"successDialog", "errorDialog", "idDialog"}

\* One step of the order attempts: one starts (past the user guards to
\* Submitting, or into the dialog of the failed guard), one is answered
\* (Success clears the cart, Failure changes nothing), or one returns from
\* its dialog (after Success to /home with the cart empty, after a failure
\* on the same page with the same cart).
AttemptStep ==
  \/ /\ orders' = orders
     /\ last'.op \notin {"orderOk", "orderFail", "dismiss"}
  \/ /\ Len(orders') = Len(orders) + 1
     /\ SubSeq(orders', 1, Len(orders)) = orders
     /\ userPresent(user)
     /\ orders'[Len(orders')].pc = IF hasUserId(user) THEN "submitting" ELSE "idDialog"
     /\ UNCHANGED <<cart, total, lsCart, page>>
  \/ \E i \in 1..Len(orders) :
       /\ orders[i].pc = "submitting"
       /\ Len(orders') = Len(orders)
       /\ \A j \in 1..Len(orders) : j # i => orders'[j] = orders[j]
       /\ \/ /\ orders'[i].pc = "successDialog"
             /\ cart' = <<>> /\ total' = 0 /\ PersistedItems(lsCart') = <<>>
             /\ page' = page
          \/ /\ orders'[i].pc = "errorDialog"
             /\ UNCHANGED <<cart, total, lsCart, page>>
  \/ \E i \in 1..Len(orders) :
       /\ InDialog(orders[i].pc)
       /\ orders' = RemoveAt(orders, i)
       /\ IF orders[i].pc = "successDialog"
          THEN cart' = <<>> /\ nav' = "/home"
          ELSE UNCHANGED <<cart, total, lsCart, page, nav>>

OldestSubmitting == IF orders = <<>> THEN FALSE ELSE orders[1].pc = "submitting"
OldestInDialog == IF orders = <<>> THEN FALSE ELSE InDialog(orders[1].pc)

\* C13: every order attempt goes Idle -> (user guards) -> Submitting ->
\* Success or Failure; when the endpoint answers and dialogs are dismissed
\* the attempt that is oldest gets its answer and then returns; the cart is
\* empty after Success and unchanged after Failure, and a failure leaves
\* the page where both handlers can be called again.
C13_OrderAttempt ==
  /\ [][AttemptStep]_vars
  /\ OldestSubmitting ~> OldestInDialog
  /\ OldestInDialog ~> (last.op = "dismiss")

\* The endpoint refused an order of an identified user, the dialog was
\* dismissed, and the page is ready with its cart.
C13_Witness ==
  /\ last.op = "dismiss" /\ last.outcome = "returned"
  /\ hasUserId(user)
  /\ orders = <<>>
  /\ page = "ready"
  /\ cart # <<>>

\* ---------------------------------------------------------------- C14
\* What handleClick sends for a cart: one {productId, quantity} pair per
\* line item, in cart order, a missing quantity as 1.
SentItems(c) ==
  [i \in 1..Len(c) |->
     [productId |-> c[i].productId,
      quantity |-> IF c[i].quantity = 0 THEN 1 ELSE c[i].quantity]]

\* C14: handleClick called by an identified user while an earlier order
\* request is still unanswered is not held back: it issues one more
\* order request, for the cart as it is.
C14_SecondClickSends ==
  [][(/\ last'.op = "click"
      /\ user = "ok"
      /\ \E i \in 1..Len(orders) : orders[i].pc = "submitting") =>
       orders' = Append(orders, [orderItems |-> SentItems(cart),
                                 pc |-> "submitting"])]_vars

\* Two order requests for the same items of a cart are unanswered.
C14_Witness ==
  /\ last.op = "click"
  /\ Len(orders) = 2
  /\ orders[1].pc = "submitting" /\ orders[2].pc = "submitting"
  /\ orders[1].orderItems = orders[2].orderItems
  /\ orders[1].orderItems = SentItems(cart)
  /\ cart # <<>>

\* ---------------------------------------------------------------- C15
RECURSIVE Submitting(_, _)
Submitting(os, n) ==
  IF n = 0 THEN 0
  ELSE Submitting(os, n - 1) + (IF os[n].pc = "submitting" THEN 1 ELSE 0)

\* The requests that are sent and not answered yet.
Unanswered(os, cs) == Submitting(os, Len(os)) + Len(cs)

\* C15: a call of handleClick or handleCheckout adds at most one request;
\* an answer, whatever it is, ends its request and no step other than a
\* call of the two handlers sends one.
C15_NoRetry ==
  [][LET before == Unanswered(orders, checkouts)
         after == Unanswered(orders', checkouts')
     IN /\ last'.op \in {"click", "checkout"} =>
             after \in {before, before + 1}
        /\ last'.op \in {"orderOk", "orderFail", "sessionOk", "sessionFail"} =>
             after = before - 1
        /\ last'.op \in {"load", "remove", "quantity", "dismiss"} =>
             after = before]_vars

\* An order request was refused and nothing is in flight.
C15_Witness ==
  /\ last.op = "orderFail"
  /\ Len(orders) = 1 /\ orders[1].pc = "errorDialog"
  /\ Unanswered(orders, checkouts) = 0
  /\ cart # <<>>

\* ---------------------------------------------------------------- C16
UniqueIds(c) ==
  \A i, j \in 1..Len(c) : c[i].productId = c[j].productId => i = j

\* C16: a removal leaves the other items as they were and in their order;
\* a quantity change keeps the length, every other item, and every field
\* but the quantity of the item it names; productIds stay unique.
C16_ShapePreserved ==
  [][/\ last'.op = "remove" =>
          cart' = SelectSeq(cart, LAMBDA item : item.productId # last'.productId)
     /\ last'.op = "quantity" =>
          /\ Len(cart') = Len(cart)
          /\ \A i \in 1..Len(cart) :
               IF cart[i].productId = last'.productId
               THEN cart'[i] = [cart[i] EXCEPT !.quantity = cart'[i].quantity]
               ELSE cart'[i] = cart[i]
     /\ (last'.op \in {"remove", "quantity"} /\ UniqueIds(cart)) =>
          UniqueIds(cart')]_vars

\* The first of two items was removed: the second is the cart.
C16_Witness ==
  /\ last.op = "remove" /\ last.outcome = "removed"
  /\ last.productId = Catalogue[1]
  /\ Len(cart) = 1
  /\ cart[1].productId = Catalogue[2]

\* ---------------------------------------------------------------- C17
\* C17: the request of handleClick carries the cart of the moment of the
\* call as {productId, quantity} pairs in cart order, a missing quantity as
\* 1; later removals and quantity changes do not alter it; when the
\* endpoint accepts, cart, total and persisted cart are emptied, whatever
\* was changed in between.
C17_SentAtCallClearedAtSuccess ==
  [][/\ (last'.op = "click" /\ last'.outcome = "sent") =>
          orders' = Append(orders, [orderItems |-> SentItems(cart),
                                    pc |-> "submitting"])
     /\ last'.op \in {"remove", "quantity"} => orders' = orders
     /\ last'.op = "orderOk" =>
          cart' = <<>> /\ total' = 0 /\ PersistedItems(lsCart') = <<>>]_vars

\* A quantity was changed while the order request is unanswered: the
\* request still carries the items of the call.
C17_Witness ==
  /\ last.op = "quantity" /\ last.outcome = "committed"
  /\ Len(orders) = 1 /\ orders[1].pc = "submitting"
  /\ Len(orders[1].orderItems) = Len(cart)
  /\ orders[1].orderItems # SentItems(cart)

\* ---------------------------------------------------------------- C18
\* C18: handleCheckout keeps the persisted cart it read at its start; on
\* success `checkoutItems` becomes that cart, whatever was removed or
\* changed since; no step of handleCheckout changes cart, total or the
\* persisted cart.
C18_CheckoutSnapshot ==
  [][/\ last'.op = "checkout" =>
          /\ UNCHANGED <<cart, total, lsCart>>
          /\ last'.outcome = "sent" =>
               /\ Len(checkouts') = Len(checkouts) + 1
               /\ checkouts'[Len(checkouts')].cartItems = PersistedItems(lsCart)
     /\ last'.op \in {"remove", "quantity", "click", "orderOk", "orderFail"} =>
          checkouts' = checkouts
     /\ last'.op = "sessionOk" =>
          /\ UNCHANGED <<cart, total, lsCart>>
          /\ \E i \in 1..Len(checkouts) :
               /\ checkouts' = RemoveAt(checkouts, i)
               /\ lsCheckout' = StorageValue("array", checkouts[i].cartItems)
     /\ last'.op = "sessionFail" => UNCHANGED <<cart, total, lsCart>>]_vars

\* The session was created after the cart had been changed: `checkoutItems`
\* holds the cart that was read, not the cart of now.
C18_Witness ==
  /\ last.op = "sessionOk"
  /\ lsCheckout.kind = "array"
  /\ lsCheckout.items # <<>>
  /\ lsCheckout.items # PersistedItems(lsCart)
  /\ PersistedItems(lsCart) = cart

=============================================================================
